---------------------------- MODULE Spec2Model ----------------------------
(***************************************************************************)
(* Model of src/arvoreb.py: a B-tree of order m (BTree) made of pages      *)
(* (BTreeNode).  A page is the record                                      *)
(*     [rrn, leaf, keys, children]                                         *)
(* where keys is a sequence of integers and children a sequence of pages.  *)
(* The source indexes its lists from 0; the operators below keep the       *)
(* source's 0-based indices (idx, index, i) and go through At, Take, Drop, *)
(* InsertAt, RemoveAt and SetAt, which translate to TLA+'s 1-based         *)
(* sequences.                                                              *)
(***************************************************************************)
EXTENDS Integers, Sequences, FiniteSets, TLC

(***************************************************************************)
(* Bounds of the model.                                                    *)
(***************************************************************************)
MaxOrder == 5
MaxKey   == 3
MaxCalls == 7

\* BTree.__init__ rejects order < 3
MinOrder == 3

Orders == MinOrder..MaxOrder
Keys   == 1..MaxKey

VARIABLES
    order,      \* self.order (m)
    root,       \* self.root
    next_rrn,   \* self._next_rrn
    raised,     \* TRUE once a call has ended with an uncaught exception
    lastOp,     \* the last call made: [op, key, count]; count = occurrences
                \* of key stored when the call was made
    cases,      \* the branches of _delete taken by the last delete call
    result,     \* the value returned by the last call when it was a search
    N,          \* number of insert calls made
    D,          \* number of delete calls whose key was stored when called
    ncalls,     \* number of insert and delete calls made
    inserted    \* inserted[k] = insert(k) calls minus delete(k) calls made
                \* since, never below 0

vars == <<order, root, next_rrn, raised, lastOp, cases, result, N, D,
          ncalls, inserted>>

(***************************************************************************)
(* Python list operations, 0-based.                                        *)
(***************************************************************************)
Min(a, b) == IF a < b THEN a ELSE b

\* s[i] for i >= 0, s[len+i] for i < 0
Has(s, i) == i >= 0 - Len(s) /\ i < Len(s)
Norm(s, i) == IF i >= 0 THEN i ELSE Len(s) + i
At(s, i) == s[Norm(s, i) + 1]

\* s[:n] and s[n:] for n >= 0
Take(s, n) == SubSeq(s, 1, Min(n, Len(s)))
Drop(s, n) == SubSeq(s, n + 1, Len(s))

\* s.insert(i, x), s.pop(i), s[i] = x for 0 <= i
InsertAt(s, i, x) == Take(s, i) \o <<x>> \o Drop(s, i)
RemoveAt(s, i) == Take(s, i) \o Drop(s, i + 1)
SetAt(s, i, x) == [s EXCEPT ![i + 1] = x]

(***************************************************************************)
(* BTree.__init__: the parameters derived from the order.                  *)
(***************************************************************************)
max_keys == order - 1
min_children == (order + 1) \div 2      \* ceil(order / 2)
min_keys == min_children - 1
t == min_children

keycount(node) == Len(node.keys)

\* BTreeNode(rrn=rrn, leaf=leaf): keys and children default to empty lists
BTreeNode(rrn, leaf) ==
    [rrn |-> rrn, leaf |-> leaf, keys |-> <<>>, children |-> <<>>]

(***************************************************************************)
(* Search.                                                                 *)
(***************************************************************************)
\* search_scan with the comparison key >= node.keys[i]
RECURSIVE search_scan_ge(_, _, _)
search_scan_ge(node, key, i) ==
    IF i < keycount(node) /\ key >= At(node.keys, i)
    THEN search_scan_ge(node, key, i + 1)
    ELSE i

\* while i < node.keycount and key > node.keys[i]: i += 1
RECURSIVE search_scan(_, _, _)
search_scan(node, key, i) ==
    IF i < keycount(node) /\ key > At(node.keys, i)
    THEN search_scan(node, key, i + 1)
    ELSE i

NotFoundNode == [found |-> FALSE, rrn |-> -1, idx |-> -1]

RECURSIVE search_node(_, _)
search_node(node, key) ==
    LET i == search_scan(node, key, 0)
    IN  IF i < keycount(node) /\ key = At(node.keys, i)
        THEN [found |-> TRUE, rrn |-> node.rrn, idx |-> i]
        ELSE IF node.leaf
        THEN NotFoundNode
        ELSE search_node(At(node.children, i), key)

search(rt, key) ==
    IF keycount(rt) = 0 /\ rt.leaf
    THEN NotFoundNode
    ELSE search_node(rt, key)

(***************************************************************************)
(* Insertion.  The operators that create pages take the next free rrn and  *)
(* return the counter with the page.                                       *)
(***************************************************************************)
\* split_child with z always created as a leaf
split_child_leaf_z(parent, index, zrrn) ==
    LET y == At(parent.children, index)
        z0 == BTreeNode(zrrn, TRUE)
        z == [z0 EXCEPT !.keys = Drop(y.keys, t),
                        !.children = IF ~y.leaf THEN Drop(y.children, t)
                                     ELSE @]
        middle_key == At(y.keys, t - 1)
        y1 == [y EXCEPT !.children = IF ~y.leaf THEN Take(@, t) ELSE @,
                        !.keys = Take(@, t - 1)]
    IN  [parent EXCEPT
            !.children = InsertAt(SetAt(@, index, y1), index + 1, z),
            !.keys = InsertAt(@, index, middle_key)]

\* split_child where y keeps all of its children
split_child_keep_children(parent, index, zrrn) ==
    LET y == At(parent.children, index)
        z0 == BTreeNode(zrrn, y.leaf)
        z == [z0 EXCEPT !.keys = Drop(y.keys, t),
                        !.children = IF ~y.leaf THEN Drop(y.children, t)
                                     ELSE @]
        middle_key == At(y.keys, t - 1)
        y1 == [y EXCEPT !.keys = Take(@, t - 1)]
    IN  [parent EXCEPT
            !.children = InsertAt(SetAt(@, index, y1), index + 1, z),
            !.keys = InsertAt(@, index, middle_key)]

split_child(parent, index, zrrn) ==
    LET y == At(parent.children, index)
        z0 == BTreeNode(zrrn, y.leaf)
        z == [z0 EXCEPT !.keys = Drop(y.keys, t),
                        !.children = IF ~y.leaf THEN Drop(y.children, t)
                                     ELSE @]
        middle_key == At(y.keys, t - 1)
        y1 == [y EXCEPT !.children = IF ~y.leaf THEN Take(@, t) ELSE @,
                        !.keys = Take(@, t - 1)]
    IN  [parent EXCEPT
            !.children = InsertAt(SetAt(@, index, y1), index + 1, z),
            !.keys = InsertAt(@, index, middle_key)]

\* while i >= 0 and key < node.keys[i]: i -= 1
RECURSIVE insert_scan(_, _, _)
insert_scan(node, key, i) ==
    IF i >= 0 /\ key < At(node.keys, i)
    THEN insert_scan(node, key, i - 1)
    ELSE i

\* insert_non_full and insert give the page after the call and the next free
\* rrn, and with them the calls they made: splits holds the arguments of every
\* call of _split_child, entered the rrn and the number of keys of every page
\* _insert_non_full was called on, as they were when the call was made.
RECURSIVE insert_non_full(_, _, _)
insert_non_full(node, key, nrrn) ==
    LET i0 == insert_scan(node, key, keycount(node) - 1)
        here == [rrn |-> node.rrn, n |-> keycount(node)]
    IN  IF node.leaf
        THEN \* the loop shifts keys[i0+1..] one place right, key goes at i0+1
             [node |-> [node EXCEPT !.keys = InsertAt(@, i0 + 1, key)],
              nrrn |-> nrrn,
              splits |-> {},
              entered |-> {here}]
        ELSE LET i1 == i0 + 1
                 full == keycount(At(node.children, i1)) = max_keys
                 node1 == IF full THEN split_child(node, i1, nrrn) ELSE node
                 nrrn1 == IF full THEN nrrn + 1 ELSE nrrn
                 i2 == IF full /\ key > At(node1.keys, i1) THEN i1 + 1 ELSE i1
                 r == insert_non_full(At(node1.children, i2), key, nrrn1)
             IN  [node |-> [node1 EXCEPT !.children = SetAt(@, i2, r.node)],
                  nrrn |-> r.nrrn,
                  splits |-> r.splits \cup
                             IF full
                             THEN {[parent |-> node, index |-> i1, zrrn |-> nrrn]}
                             ELSE {},
                  entered |-> r.entered \cup {here}]

\* insert where the new root and the page split off the old root get the
\* same rrn
insert_same_rrn(rt, key, nrrn) ==
    IF keycount(rt) = max_keys
    THEN LET new_root == [BTreeNode(nrrn, FALSE) EXCEPT !.children = <<rt>>]
         IN  insert_non_full(split_child(new_root, 0, nrrn), key, nrrn + 1)
    ELSE insert_non_full(rt, key, nrrn)

insert(rt, key, nrrn) ==
    IF keycount(rt) = max_keys
    THEN LET new_root == [BTreeNode(nrrn, FALSE) EXCEPT !.children = <<rt>>]
             r == insert_non_full(split_child(new_root, 0, nrrn + 1), key,
                                  nrrn + 2)
         IN  [r EXCEPT !.splits = @ \cup {[parent |-> new_root, index |-> 0,
                                           zrrn |-> nrrn + 1]}]
    ELSE insert_non_full(rt, key, nrrn)

(***************************************************************************)
(* Deletion.  A call that raises IndexError leaves the pages as they were  *)
(* at the raise; the operators return the page with err = TRUE.  cases     *)
(* collects the branches of _delete that were taken.                       *)
(***************************************************************************)
Last(s) == Len(s) - 1

\* cur = node.children[idx]; while not cur.leaf: cur = cur.children[cur.keycount]
RECURSIVE rightmost_leaf(_)
rightmost_leaf(cur) ==
    IF cur.leaf THEN [err |-> FALSE, leaf |-> cur]
    ELSE IF ~Has(cur.children, keycount(cur)) THEN [err |-> TRUE, leaf |-> cur]
    ELSE rightmost_leaf(At(cur.children, keycount(cur)))

\* return cur.keys[-1]: IndexError on a leaf without keys
get_predecessor(node, idx) ==
    LET r == rightmost_leaf(At(node.children, idx))
    IN  IF r.err \/ ~Has(r.leaf.keys, -1)
        THEN [err |-> TRUE, val |-> 0]
        ELSE [err |-> FALSE, val |-> At(r.leaf.keys, -1)]

\* cur = node.children[idx + 1]; while not cur.leaf: cur = cur.children[0]
RECURSIVE leftmost_leaf(_)
leftmost_leaf(cur) ==
    IF cur.leaf THEN [err |-> FALSE, leaf |-> cur]
    ELSE IF ~Has(cur.children, 0) THEN [err |-> TRUE, leaf |-> cur]
    ELSE leftmost_leaf(At(cur.children, 0))

\* return cur.keys[0]: IndexError on a leaf without keys
get_successor(node, idx) ==
    LET r == leftmost_leaf(At(node.children, idx + 1))
    IN  IF r.err \/ ~Has(r.leaf.keys, 0)
        THEN [err |-> TRUE, val |-> 0]
        ELSE [err |-> FALSE, val |-> At(r.leaf.keys, 0)]

\* merge_children where the separator key does not go down into the child
merge_children_nosep(parent, idx) ==
    IF ~Has(parent.children, idx) \/ ~Has(parent.children, idx + 1)
       \/ ~Has(parent.keys, idx)
    THEN [node |-> parent, err |-> TRUE]
    ELSE LET ci == Norm(parent.children, idx)
             si == Norm(parent.children, idx + 1)
             child == At(parent.children, ci)
             sibling == At(parent.children, si)
             keys2 == child.keys \o sibling.keys
             children2 == IF ~child.leaf
                          THEN child.children \o sibling.children
                          ELSE child.children
             child2 == [child EXCEPT !.keys = keys2, !.children = children2]
         IN  [node |-> [parent EXCEPT
                  !.keys = RemoveAt(@, Norm(parent.keys, idx)),
                  !.children = RemoveAt(SetAt(@, ci, child2), si)],
              err |-> FALSE]

\* parent.children[idx], parent.children[idx + 1] and parent.keys[idx] are
\* read before anything is changed: a missing one raises with parent intact.
\* idx = -1 reads from the end of the lists as Python does; child and
\* sibling are then the same page when parent has a single child.
merge_children(parent, idx) ==
    IF ~Has(parent.children, idx) \/ ~Has(parent.children, idx + 1)
       \/ ~Has(parent.keys, idx)
    THEN [node |-> parent, err |-> TRUE]
    ELSE LET ci == Norm(parent.children, idx)
             si == Norm(parent.children, idx + 1)
             child == At(parent.children, ci)
             sibling == At(parent.children, si)
             keys1 == Append(child.keys, At(parent.keys, idx))
             keys2 == keys1 \o (IF ci = si THEN keys1 ELSE sibling.keys)
             children2 == IF ~child.leaf
                          THEN child.children \o sibling.children
                          ELSE child.children
             child2 == [child EXCEPT !.keys = keys2, !.children = children2]
         IN  [node |-> [parent EXCEPT
                  !.keys = RemoveAt(@, Norm(parent.keys, idx)),
                  !.children = RemoveAt(SetAt(@, ci, child2), si)],
              err |-> FALSE]

\* called with idx > 0 and at least t keys in children[idx - 1]
borrow_from_prev(parent, idx) ==
    LET child == At(parent.children, idx)
        left == At(parent.children, idx - 1)
        child1 == [child EXCEPT
                      !.keys = InsertAt(@, 0, At(parent.keys, idx - 1)),
                      !.children = IF ~child.leaf
                                   THEN InsertAt(@, 0, At(left.children, Last(left.children)))
                                   ELSE @]
        left1 == [left EXCEPT
                     !.children = IF ~child.leaf THEN RemoveAt(@, Last(@)) ELSE @,
                     !.keys = RemoveAt(@, Last(@))]
    IN  [parent EXCEPT
            !.keys = SetAt(@, idx - 1, At(left.keys, Last(left.keys))),
            !.children = SetAt(SetAt(@, idx, child1), idx - 1, left1)]

\* borrow_from_next where the last key of the right sibling goes up
borrow_from_next_last(parent, idx) ==
    LET child == At(parent.children, idx)
        right == At(parent.children, idx + 1)
        child1 == [child EXCEPT
                      !.keys = Append(@, At(parent.keys, idx)),
                      !.children = IF ~child.leaf
                                   THEN Append(@, At(right.children, 0))
                                   ELSE @]
        right1 == [right EXCEPT
                      !.children = IF ~child.leaf THEN RemoveAt(@, 0) ELSE @,
                      !.keys = RemoveAt(@, Last(@))]
    IN  [parent EXCEPT
            !.keys = SetAt(@, idx, At(right.keys, Last(right.keys))),
            !.children = SetAt(SetAt(@, idx, child1), idx + 1, right1)]

\* called with idx < len(children) - 1 and at least t keys in children[idx + 1]
borrow_from_next(parent, idx) ==
    LET child == At(parent.children, idx)
        right == At(parent.children, idx + 1)
        child1 == [child EXCEPT
                      !.keys = Append(@, At(parent.keys, idx)),
                      !.children = IF ~child.leaf
                                   THEN Append(@, At(right.children, 0))
                                   ELSE @]
        right1 == [right EXCEPT
                      !.children = IF ~child.leaf THEN RemoveAt(@, 0) ELSE @,
                      !.keys = RemoveAt(@, 0)]
    IN  [parent EXCEPT
            !.keys = SetAt(@, idx, At(right.keys, 0)),
            !.children = SetAt(SetAt(@, idx, child1), idx + 1, right1)]

\* delete_scan with the comparison key >= node.keys[idx]
RECURSIVE delete_scan_ge(_, _, _)
delete_scan_ge(node, key, idx) ==
    IF idx < keycount(node) /\ key >= At(node.keys, idx)
    THEN delete_scan_ge(node, key, idx + 1)
    ELSE idx

\* while idx < node.keycount and key > node.keys[idx]: idx += 1
RECURSIVE delete_scan(_, _, _)
delete_scan(node, key, idx) ==
    IF idx < keycount(node) /\ key > At(node.keys, idx)
    THEN delete_scan(node, key, idx + 1)
    ELSE idx

Ret(node, err, cs) == [node |-> node, err |-> err, cases |-> cs]

\* self._delete(node.children[i], key) and its effect on node
RECURSIVE delete_node(_, _)
\* "below_t" records that the page the call is made on held fewer than t
\* keys when the call was made
delete_child(node, i, key, cs) ==
    IF ~Has(node.children, i) THEN Ret(node, TRUE, cs)
    ELSE LET child == At(node.children, i)
             r == delete_node(child, key)
             low == IF keycount(child) < t THEN {"below_t"} ELSE {}
         IN  Ret([node EXCEPT !.children = SetAt(@, i, r.node)],
                 r.err, cs \cup low \cup r.cases)

\* the step of case 2 that brings children[idx] to t keys; idx is the child
\* to descend into afterwards
rebalance(node, idx) ==
    IF idx > 0 /\ keycount(At(node.children, idx - 1)) >= t
    THEN [node |-> borrow_from_prev(node, idx), idx |-> idx, err |-> FALSE,
          cases |-> {"borrow_prev"}]
    ELSE IF idx < Len(node.children) - 1
            /\ keycount(At(node.children, idx + 1)) >= t
    THEN [node |-> borrow_from_next(node, idx), idx |-> idx, err |-> FALSE,
          cases |-> {"borrow_next"}]
    ELSE IF idx < Len(node.children) - 1
    THEN LET mg == merge_children(node, idx)
         IN  [node |-> mg.node, idx |-> idx, err |-> mg.err,
              cases |-> {"merge_next"}]
    ELSE LET mg == merge_children(node, idx - 1)
         IN  [node |-> mg.node, idx |-> idx - 1, err |-> mg.err,
              cases |-> {"merge_prev"}]

delete_node(node, key) ==
    LET idx == delete_scan(node, key, 0)
    IN  IF idx < keycount(node) /\ At(node.keys, idx) = key
        THEN \* case 1: the key is in this page
             IF node.leaf
             THEN Ret([node EXCEPT !.keys = RemoveAt(@, idx)], FALSE, {"1a"})
             ELSE IF ~Has(node.children, idx)
             THEN Ret(node, TRUE, {})
             ELSE IF keycount(At(node.children, idx)) >= t
             THEN LET pred == get_predecessor(node, idx)
                  IN  IF pred.err THEN Ret(node, TRUE, {"1b"})
                      ELSE delete_child(
                               [node EXCEPT !.keys = SetAt(@, idx, pred.val)],
                               idx, pred.val, {"1b"})
             ELSE IF ~Has(node.children, idx + 1)
             THEN Ret(node, TRUE, {})
             ELSE IF keycount(At(node.children, idx + 1)) >= t
             THEN LET succ == get_successor(node, idx)
                  IN  IF succ.err THEN Ret(node, TRUE, {"1c"})
                      ELSE delete_child(
                               [node EXCEPT !.keys = SetAt(@, idx, succ.val)],
                               idx + 1, succ.val, {"1c"})
             ELSE LET mg == merge_children(node, idx)
                  IN  IF mg.err THEN Ret(mg.node, TRUE, {"1d"})
                      ELSE delete_child(mg.node, idx, key, {"1d"})
        ELSE \* case 2: the key is not in this page
             IF node.leaf
             THEN Ret(node, FALSE, {"absent"})
             ELSE IF ~Has(node.children, idx)
             THEN Ret(node, TRUE, {})
             ELSE IF keycount(At(node.children, idx)) < t
             THEN LET rb == rebalance(node, idx)
                  IN  IF rb.err THEN Ret(rb.node, TRUE, rb.cases)
                      ELSE delete_child(rb.node, rb.idx, key, rb.cases)
             ELSE delete_child(node, idx, key, {})

\* BTree.delete: _delete on the root, then the root shrinks if it is an
\* internal page without keys
\* delete that keeps a root left without keys
delete_no_shrink(rt, key) == delete_node(rt, key)

delete(rt, key) ==
    LET r == delete_node(rt, key)
    IN  IF r.err THEN r
        ELSE IF keycount(r.node) = 0 /\ ~r.node.leaf
        THEN IF ~Has(r.node.children, 0) THEN Ret(r.node, TRUE, r.cases)
             ELSE Ret(At(r.node.children, 0), FALSE, r.cases \cup {"shrink"})
        ELSE r

(***************************************************************************)
(* Statistics.                                                             *)
(***************************************************************************)
RECURSIVE count_keys(_)
RECURSIVE count_children(_, _)
\* for child in node.children: total += self._count_keys(child)
count_children(cs, i) ==
    IF i >= Len(cs) THEN 0
    ELSE count_keys(At(cs, i)) + count_children(cs, i + 1)

count_keys(node) == keycount(node) + count_children(node.children, 0)

total_keys(rt) ==
    IF keycount(rt) = 0 /\ rt.leaf THEN 0 ELSE count_keys(rt)

RECURSIVE height(_)
height(node) ==
    IF node.leaf THEN 1 ELSE 1 + height(At(node.children, 0))

\* actual_depth without the test for the empty tree
actual_depth_no_empty(rt) == height(rt)

actual_depth(rt) ==
    IF keycount(rt) = 0 /\ rt.leaf THEN 0 ELSE height(rt)

\* base ** e for e >= 0
RECURSIVE Pow(_, _)
Pow(base, e) == IF e <= 0 THEN 1 ELSE base * Pow(base, e - 1)

\* d <= theoretical_depth_upper_bound() for a whole number d: the bound is 0.0
\* when N = 0 and 1 + log(value, base) otherwise, with value = (N + 1) / 2
\* and base = min_children, so d is within it exactly when
\* base ** (d - 1) <= (N + 1) / 2
within_theoretical_depth(rt, d) ==
    LET NN == total_keys(rt)
        base == min_children
    IN  IF NN = 0 THEN d <= 0
        ELSE 2 * Pow(base, d - 1) <= NN + 1

(***************************************************************************)
(* What the pages of a tree hold (used to state the properties).          *)
(***************************************************************************)
Range(s) == {s[i] : i \in 1..Len(s)}

\* the pages of the subtree of node, each with its depth below node
RECURSIVE Pages(_, _)
Pages(node, depth) ==
    {[page |-> node, depth |-> depth]}
    \cup UNION {Pages(c, depth + 1) : c \in Range(node.children)}

\* occurrences of k in a sequence of keys
Occ(s, k) == Cardinality({i \in 1..Len(s) : s[i] = k})

\* occurrences of k in the subtree of node
RECURSIVE Stored(_, _)
RECURSIVE StoredIn(_, _, _)
StoredIn(cs, i, k) ==
    IF i >= Len(cs) THEN 0 ELSE Stored(At(cs, i), k) + StoredIn(cs, i + 1, k)

Stored(node, k) == Occ(node.keys, k) + StoredIn(node.children, 0, k)

\* in-order traversal of the subtree of node
RECURSIVE InOrder(_)
RECURSIVE InOrderFrom(_, _)
InOrderFrom(node, i) ==
    IF i >= Len(node.children) THEN <<>>
    ELSE InOrder(At(node.children, i))
         \o (IF i < keycount(node) THEN <<At(node.keys, i)>> ELSE <<>>)
         \o InOrderFrom(node, i + 1)

InOrder(node) == IF node.leaf THEN node.keys ELSE InOrderFrom(node, 0)

\* the rrn of every page of the subtree of node, the page itself first
RECURSIVE Rrns(_)
RECURSIVE RrnsFrom(_, _)
RrnsFrom(cs, i) ==
    IF i >= Len(cs) THEN <<>> ELSE Rrns(At(cs, i)) \o RrnsFrom(cs, i + 1)

Rrns(node) == <<node.rrn>> \o RrnsFrom(node.children, 0)

(***************************************************************************)
(* The calls.  An uncaught exception ends the program: nothing is called   *)
(* after it.                                                               *)
(***************************************************************************)
Init ==
    /\ order \in Orders
    /\ root = BTreeNode(0, TRUE)
    /\ next_rrn = 1
    /\ raised = FALSE
    /\ lastOp = [op |-> "new", key |-> 0, count |-> 0]
    /\ cases = {}
    /\ result = NotFoundNode
    /\ N = 0
    /\ D = 0
    /\ ncalls = 0
    /\ inserted = [k \in Keys |-> 0]

CallInsert(k) ==
    /\ ~raised
    /\ ncalls < MaxCalls
    /\ LET r == insert(root, k, next_rrn)
       IN  /\ root' = r.node
           /\ next_rrn' = r.nrrn
    /\ lastOp' = [op |-> "insert", key |-> k, count |-> Stored(root, k)]
    /\ N' = N + 1
    /\ ncalls' = ncalls + 1
    /\ inserted' = [inserted EXCEPT ![k] = @ + 1]
    /\ cases' = {}
    /\ result' = NotFoundNode
    /\ UNCHANGED <<order, raised, D>>

CallDelete(k) ==
    /\ ~raised
    /\ ncalls < MaxCalls
    /\ LET r == delete(root, k)
       IN  /\ root' = r.node
           /\ raised' = r.err
           /\ cases' = r.cases
    /\ lastOp' = [op |-> "delete", key |-> k, count |-> Stored(root, k)]
    /\ D' = IF Stored(root, k) > 0 THEN D + 1 ELSE D
    /\ ncalls' = ncalls + 1
    /\ inserted' = [inserted EXCEPT ![k] = IF @ > 0 THEN @ - 1 ELSE 0]
    /\ result' = NotFoundNode
    /\ UNCHANGED <<order, next_rrn, N>>

CallSearch(k) ==
    /\ ~raised
    /\ result' = search(root, k)
    /\ lastOp' = [op |-> "search", key |-> k, count |-> Stored(root, k)]
    /\ cases' = {}
    /\ UNCHANGED <<order, root, next_rrn, raised, N, D, ncalls, inserted>>

Next ==
    \/ \E k \in Keys : CallInsert(k)
    \/ \E k \in Keys : CallDelete(k)
    \/ \E k \in Keys : CallSearch(k)

Spec == Init /\ [][Next]_vars

(***************************************************************************)
(* The constructor as a step of its own: BTree(order) for any integer      *)
(* order, the ones the constructor rejects included.  Before the call      *)
(* there is no tree (NoTree stands for the missing object); a rejected     *)
(* call raises ValueError, which ends the program.                         *)
(***************************************************************************)
NoTree == [rrn |-> -1, leaf |-> TRUE, keys |-> <<>>, children |-> <<>>]

InitNew ==
    /\ order \in 0..MaxOrder
    /\ root = NoTree
    /\ next_rrn = 0
    /\ raised = FALSE
    /\ lastOp = [op |-> "init", key |-> 0, count |-> 0]
    /\ cases = {}
    /\ result = NotFoundNode
    /\ N = 0
    /\ D = 0
    /\ ncalls = 0
    /\ inserted = [k \in Keys |-> 0]

\* New that builds a tree whatever the order
New_any_order ==
    /\ lastOp.op = "init"
    /\ lastOp' = [op |-> "new", key |-> 0, count |-> 0]
    /\ root' = BTreeNode(next_rrn, TRUE)
    /\ next_rrn' = next_rrn + 1
    /\ UNCHANGED <<order, raised, cases, result, N, D, ncalls, inserted>>

New ==
    /\ lastOp.op = "init"
    /\ lastOp' = [op |-> "new", key |-> 0, count |-> 0]
    /\ IF order < MinOrder
       THEN /\ raised' = TRUE
            /\ UNCHANGED <<root, next_rrn>>
       ELSE /\ root' = BTreeNode(next_rrn, TRUE)
            /\ next_rrn' = next_rrn + 1
            /\ UNCHANGED raised
    /\ UNCHANGED <<order, cases, result, N, D, ncalls, inserted>>

NextNew ==
    \/ New
    \/ (lastOp.op # "init" /\ Next)

SpecNew == InitNew /\ [][NextNew]_vars

(***************************************************************************)
(* Properties.                                                             *)
(***************************************************************************)
AllPages == Pages(root, 0)

Sorted(s) == \A i \in 1..(Len(s) - 1) : s[i] <= s[i + 1]

\* the keys stored in the subtree of node
KeysOf(node) == {k \in Keys : Stored(node, k) > 0}

Restructured == {"borrow_prev", "borrow_next", "merge_next", "merge_prev"}

\* the step is a call of delete
DeleteStep == ncalls' = ncalls + 1 /\ lastOp'.op = "delete"

\* the step is a call of insert
InsertStep == ncalls' = ncalls + 1 /\ lastOp'.op = "insert"

\* C1: once a call has returned, every page but the root holds at least
\* min_keys = ceil(m/2) - 1 keys, for every order m >= 3.
C1_MinKeys ==
    ~raised =>
        \A p \in AllPages : p.depth > 0 => keycount(p.page) >= min_keys

\* C2: once a call has returned, no page (root included) holds more than
\* max_keys = m - 1 keys, for every order m >= 3.
C2_MaxKeys ==
    ~raised => \A p \in AllPages : keycount(p.page) <= max_keys

\* C3: every insert, delete and search call completes without raising.
C3_NoError == raised = FALSE

\* C4: every leaf page is at the same depth, the one _height measures by
\* following child 0.
C4_Balance ==
    \A p \in AllPages : p.page.leaf => p.depth + 1 = height(root)

C4_Witness ==
    /\ lastOp.op = "delete"
    /\ ~raised
    /\ "shrink" \in cases
    /\ height(root) = 2

\* C5: a key inserted and not deleted since is found by search.
C5_InsertedFound ==
    /\ \A k \in Keys : inserted[k] > 0 => search(root, k).found
    /\ (lastOp.op = "search" /\ inserted[lastOp.key] > 0) => result.found

C5_Witness ==
    /\ lastOp.op = "search"
    /\ inserted[lastOp.key] > 0
    /\ result.found
    /\ result.rrn # root.rrn
    /\ D > 0

\* C6: when delete(k) returns and k was stored exactly once, search(k) does
\* not find k, and a key that is not found stays not found until it is
\* inserted.
C6_DeletedNotFound ==
    [][\A k \in Keys :
          /\ (DeleteStep /\ lastOp'.key = k /\ lastOp'.count = 1 /\ ~raised')
                => ~search(root', k).found
          /\ (~search(root, k).found /\ ~(InsertStep /\ lastOp'.key = k))
                => ~search(root', k).found]_vars

C6_Witness ==
    /\ lastOp.op = "delete"
    /\ lastOp.count = 1
    /\ ~raised
    /\ "1d" \in cases
    /\ ~search(root, lastOp.key).found

\* C7: total_keys() is the number of insert calls minus the number of delete
\* calls whose key was stored when the call was made.
C7_CountConservation == total_keys(root) = N - D

\* C8, as stated: delete of a key that is not stored leaves the root and
\* every page as they were.
C8_AbsentDeleteKeepsPages ==
    [][(DeleteStep /\ lastOp'.count = 0) => root' = root]_vars

\* C8, amended: delete of a key that is not stored returns and leaves the
\* keys as they were, in the same in-order sequence and with the same answer
\* of search for every key; no page is created.
C8_AbsentDeleteKeepsKeys ==
    [][(DeleteStep /\ lastOp'.count = 0) =>
          /\ ~raised'
          /\ InOrder(root') = InOrder(root)
          /\ \A k \in Keys : Stored(root', k) = Stored(root, k)
          /\ \A k \in Keys : search(root', k).found = search(root, k).found
          /\ next_rrn' = next_rrn]_vars

C8_Witness ==
    /\ lastOp.op = "delete"
    /\ lastOp.count = 0
    /\ cases \cap Restructured # {}
    /\ "shrink" \in cases

\* C9: the in-order traversal is non-decreasing: the keys of a page are
\* sorted and the keys under children[i] lie between keys[i-1] and keys[i].
C9_Ordered ==
    /\ Sorted(InOrder(root))
    /\ \A p \in AllPages :
          /\ Sorted(p.page.keys)
          /\ \A i \in 0..(Len(p.page.children) - 1) :
                \A k \in KeysOf(At(p.page.children, i)) :
                   /\ (i > 0 /\ i - 1 < keycount(p.page))
                         => k >= At(p.page.keys, i - 1)
                   /\ i < keycount(p.page) => k <= At(p.page.keys, i)

C9_Witness ==
    /\ lastOp.op = "delete"
    /\ ~raised
    /\ "1a" \in cases
    /\ cases \cap {"borrow_prev", "borrow_next"} # {}
    /\ \E k \in Keys : Stored(root, k) >= 2
    /\ KeysOf(root) = Keys
    /\ height(root) >= 2

\* C10: an internal page has keycount + 1 children, a leaf page has none.
C10_Fanout ==
    \A p \in AllPages :
        IF p.page.leaf
        THEN p.page.children = <<>>
        ELSE Len(p.page.children) = keycount(p.page) + 1

C10_Witness ==
    /\ lastOp.op = "delete"
    /\ cases \cap {"merge_next", "merge_prev", "1d"} # {}
    /\ height(root) >= 3

\* C11: with N >= 1 keys stored, actual_depth() does not exceed
\* 1 + log_{ceil(m/2)}((N + 1) / 2), i.e. 2 * ceil(m/2)^(depth - 1) <= N + 1.
C11_DepthBound ==
    total_keys(root) >= 1 => within_theoretical_depth(root, actual_depth(root))

\* C12: actual_depth() is 0 exactly when no key is stored, and otherwise the
\* number of pages from the root to any leaf; when total_keys() is 0 the root
\* is a leaf without keys.
C12_DepthZeroIffEmpty ==
    /\ (actual_depth(root) = 0) <=> (\A k \in Keys : Stored(root, k) = 0)
    /\ actual_depth(root) # 0 =>
          \A p \in AllPages : p.page.leaf => actual_depth(root) = p.depth + 1
    /\ total_keys(root) = 0 => (root.leaf /\ root.keys = <<>>)

C12_Witness ==
    /\ lastOp.op = "delete"
    /\ lastOp.count = 1
    /\ ~raised
    /\ actual_depth(root) = 0
    /\ next_rrn >= 3

\* the pages of rt have distinct rrn, all handed out by the counter nrrn, and
\* a search that finds key names the one page with that rrn and the position
\* of key in it
SearchSound(rt, nrrn) ==
    LET ids == Rrns(rt)
        pages == Pages(rt, 0)
    IN  /\ \A i, j \in 1..Len(ids) : ids[i] = ids[j] => i = j
        /\ \A i \in 1..Len(ids) : ids[i] >= 0 /\ ids[i] < nrrn
        /\ \A k \in Keys :
              LET r == search(rt, k)
              IN  r.found =>
                    /\ Occ(ids, r.rrn) = 1
                    /\ \A p \in pages :
                          p.page.rrn = r.rrn =>
                             /\ Has(p.page.keys, r.idx)
                             /\ r.idx >= 0
                             /\ At(p.page.keys, r.idx) = k

\* C13: a search that finds k returns the rrn of exactly one page of the
\* tree and the index of k in it; rrn are handed out in increasing order, a
\* page that appears in the tree gets an rrn never used before, and search
\* changes nothing.
C13_SearchNamesOnePage ==
    [][/\ SearchSound(root', next_rrn')
       /\ next_rrn' >= next_rrn
       /\ root' # root =>
             \A id \in Range(Rrns(root')) \ Range(Rrns(root)) :
                id >= next_rrn /\ id < next_rrn'
       /\ lastOp'.op = "search" =>
             /\ result' = search(root, lastOp'.key)
             /\ root' = root
             /\ next_rrn' = next_rrn]_vars

C13_Witness ==
    /\ lastOp.op = "search"
    /\ result.found
    /\ result.idx >= 1
    /\ result.rrn >= 2
    /\ D > 0
    /\ Len(Rrns(root)) < next_rrn

\* C14: BTree(order) with order < 3 fails with an error and builds no tree;
\* with order >= 3 it gives an empty leaf root with rrn 0, max_keys = m - 1,
\* min_children = t = ceil(m/2), min_keys = ceil(m/2) - 1, on which search
\* finds nothing and total_keys() and actual_depth() are 0.
C14_Constructor ==
    /\ lastOp.op = "init" => (root = NoTree /\ ~raised)
    /\ (lastOp.op # "init" /\ order < 3) =>
          /\ raised
          /\ root = NoTree
          /\ next_rrn = 0
    /\ (lastOp.op = "new" /\ order >= 3) =>
          /\ ~raised
          /\ root = [rrn |-> 0, leaf |-> TRUE, keys |-> <<>>, children |-> <<>>]
          /\ max_keys = order - 1
          /\ min_children = t
          /\ 2 * t >= order /\ 2 * (t - 1) < order
          /\ min_keys = t - 1
          /\ \A k \in Keys : search(root, k) = NotFoundNode
          /\ total_keys(root) = 0
          /\ actual_depth(root) = 0
    /\ (lastOp.op # "init" /\ order >= 3) => root # NoTree

C14_Witness ==
    /\ lastOp.op = "new"
    /\ order = 2
    /\ raised
    /\ root = NoTree

\* what the claim says of the call _split_child(parent, index) that creates
\* the page zrrn
SplitAsSpecified(parent, index, zrrn) ==
    LET y == At(parent.children, index)
        after == split_child(parent, index, zrrn)
        y1 == At(after.children, index)
        z == At(after.children, index + 1)
    IN  /\ keycount(y) = max_keys
        /\ keycount(y1) = t - 1
        /\ \A j \in 0..(t - 2) : At(y1.keys, j) = At(y.keys, j)
        /\ keycount(z) = t - 1
        /\ \A j \in 0..(t - 2) :
              At(z.keys, j) = At(y.keys, keycount(y) - (t - 1) + j)
        /\ ~y.leaf =>
              /\ Len(y1.children) = t
              /\ Len(z.children) = t
              /\ \A j \in 0..(t - 1) :
                    /\ At(y1.children, j) = At(y.children, j)
                    /\ At(z.children, j) =
                          At(y.children, Len(y.children) - t + j)
        /\ y1.rrn = y.rrn
        /\ z.rrn = zrrn
        /\ after.keys = InsertAt(parent.keys, index, At(y.keys, t - 1))
        /\ Len(after.children) = Len(parent.children) + 1
        /\ \A k \in Keys : Stored(after, k) = Stored(parent, k)

\* C15: every split made by an insert, at any order m >= 3, leaves the
\* first t-1 keys (and first t children) in the full page, gives the last
\* t-1 keys (and last t children) to the new right sibling, puts the key at
\* position t-1 into the parent at index and the sibling at index+1, and
\* loses or duplicates no key.
C15_SplitHalves ==
    [][InsertStep =>
          \A s \in insert(root, lastOp'.key, next_rrn).splits :
             SplitAsSpecified(s.parent, s.index, s.zrrn)]_vars

\* C16: every recursive call of _delete on a child page is made on a page
\* with at least t keys.
C16_DescendWithT == "below_t" \notin cases

\* C17: every page an insert enters through _insert_non_full holds fewer
\* than max_keys keys when it is entered, and the leaf that receives the key
\* ends with at most max_keys keys.
C17_EnterNonFull ==
    [][InsertStep =>
          LET r == insert(root, lastOp'.key, next_rrn)
          IN  /\ \A e \in r.entered : e.n < max_keys
              /\ \A p \in Pages(r.node, 0) :
                    (p.page.leaf /\ \E e \in r.entered : e.rrn = p.page.rrn)
                       => keycount(p.page) <= max_keys]_vars

\* C18: after a delete that returns, the root is a leaf or holds a key, and
\* the height is the one before or one less; after an insert the height is
\* the one before or one more, and one more only with a new root.
C18_RootAndHeight ==
    [][/\ (DeleteStep /\ ~raised') =>
             /\ root'.leaf \/ keycount(root') >= 1
             /\ height(root') \in {height(root) - 1, height(root)}
       /\ InsertStep =>
             /\ height(root') \in {height(root), height(root) + 1}
             /\ height(root') = height(root) + 1 =>
                   /\ root'.rrn = next_rrn
                   /\ root'.rrn # root.rrn
                   /\ At(root'.children, 0).rrn = root.rrn]_vars

C18_Witness ==
    /\ lastOp.op = "delete"
    /\ ~raised
    /\ "shrink" \in cases
    /\ ~root.leaf
    /\ N >= 5

\* C19: insert(k) adds one occurrence of k to the stored keys and changes no
\* other count; delete(k) of a stored k removes one occurrence of k and
\* changes no other count.
C19_MultisetRefinement ==
    [][/\ InsertStep =>
             \A k \in Keys :
                Stored(root', k) =
                   Stored(root, k) + (IF k = lastOp'.key THEN 1 ELSE 0)
       /\ (DeleteStep /\ Stored(root, lastOp'.key) > 0) =>
             \A k \in Keys :
                Stored(root', k) =
                   Stored(root, k) - (IF k = lastOp'.key THEN 1 ELSE 0)]_vars

=============================================================================
